---- MODULE Spec2Model ----
(***************************************************************************)
(* Model of the access-token credential store (package accesstoken):       *)
(* CredentialStore.Create / Check / List / Delete over an ordered          *)
(* key-value store.  Strings are sequences of one-character strings, byte  *)
(* arrays are sequences of integers 0..255.                                *)
(***************************************************************************)
EXTENDS Integers, Sequences, FiniteSets, TLC

(***************************************************************************)
(* Program constants and model bounds                                      *)
(***************************************************************************)
tokenSize == 32

defGenericPageSize == 100

\* Width of the model's machine integer (Go's int, two's complement).  The
\* width is scaled down so that the wrap-around of zafter+limit can be
\* computed; MaxInt plays the role of math.MaxInt.
IntBits == 8

\* Largest timestamp time.Now() may return.
MaxTime == 1

\* Largest ordinary page size passed as limit / defaultLimit.
MaxLimit == 2
MaxDefaultLimit == 2

MaxInt == 2^(IntBits - 1) - 1
MinInt == 0 - 2^(IntBits - 1)

\* Two's-complement wrap of a mathematical integer into the int range.
WrapInt(x) == ((x - MinInt) % 2^IntBits) + MinInt

\* Go's int addition.
AddInt(a, b) == WrapInt(a + b)

(***************************************************************************)
(* Characters                                                              *)
(***************************************************************************)
\* The printable ASCII characters, code 32 first (code 96 by name).
Ascii ==
  << " ", "!", "\"", "#", "$", "%", "&", "'", "(", ")", "*", "+", ",", "-", ".", "/",
     "0", "1", "2", "3", "4", "5", "6", "7", "8", "9", ":", ";", "<", "=", ">", "?",
     "@", "A", "B", "C", "D", "E", "F", "G", "H", "I", "J", "K", "L", "M", "N", "O",
     "P", "Q", "R", "S", "T", "U", "V", "W", "X", "Y", "Z", "[", "\\", "]", "^", "_",
     "backquote", "a", "b", "c", "d", "e", "f", "g", "h", "i", "j", "k", "l", "m", "n", "o",
     "p", "q", "r", "s", "t", "u", "v", "w", "x", "y", "z", "{", "|", "}", "~" >>

\* The byte value of each character.
CodeOf == [c \in {Ascii[i] : i \in 1..Len(Ascii)} |->
             31 + (CHOOSE i \in 1..Len(Ascii) : Ascii[i] = c)]

Code(c) == CodeOf[c]

Digits == << "0", "1", "2", "3", "4", "5", "6", "7", "8", "9" >>

DigitChars == {Digits[i] : i \in 1..10}

IsDigit(c) == c \in DigitChars

DigitValOf == [c \in DigitChars |-> (CHOOSE i \in 1..10 : Digits[i] = c) - 1]

DigitVal(c) == DigitValOf[c]

\* The regexp class \w: ASCII letters, digits and underscore.
WordChars ==
  {Ascii[i - 31] : i \in (48..57) \cup (65..90) \cup (97..122) \cup {95}}

IsWord(c) == c \in WordChars

\* The pattern without its anchors: [\w-]+ matches anywhere in id.
validIDRegexpUnanchored(id) ==
  \E i \in 1..Len(id) : IsWord(id[i]) \/ id[i] = "-"

\* validIDRegexp.MatchString(id) for ^[\w-]+$ .
validIDRegexp(id) ==
  /\ Len(id) >= 1
  /\ \A i \in 1..Len(id) : IsWord(id[i]) \/ id[i] = "-"

(***************************************************************************)
(* Conversions                                                             *)
(***************************************************************************)
HexDigits ==
  << "0", "1", "2", "3", "4", "5", "6", "7", "8", "9", "a", "b", "c", "d", "e", "f" >>

\* The verb %x applied to a byte array: two lower-case hex digits per byte.
Hex(b) ==
  [i \in 1..(2 * Len(b)) |->
     IF i % 2 = 1 THEN HexDigits[(b[(i + 1) \div 2] \div 16) + 1]
                  ELSE HexDigits[(b[i \div 2] % 16) + 1]]

\* fmt.Sprintf("%s:%x", id, bytes)
Sprintf(id, b) == id \o << ":" >> \o Hex(b)

\* strconv.Itoa
RECURSIVE ItoaNat(_)
ItoaNat(n) == IF n < 10 THEN << Digits[n + 1] >>
              ELSE ItoaNat(n \div 10) \o << Digits[(n % 10) + 1] >>

Itoa(n) == IF n < 0 THEN << "-" >> \o ItoaNat(0 - n) ELSE ItoaNat(n)

RECURSIVE DigitsVal(_, _)
DigitsVal(s, acc) ==
  IF s = << >> THEN acc ELSE DigitsVal(Tail(s), 10 * acc + DigitVal(Head(s)))

\* strconv.Atoi: an optional sign followed by one or more decimal digits, in
\* the int range.  The value is 0 when err is TRUE.
Atoi(s) ==
  LET signed == Len(s) >= 1 /\ (s[1] = "+" \/ s[1] = "-")
      body   == IF signed THEN Tail(s) ELSE s
      syntax == Len(body) >= 1 /\ \A i \in 1..Len(body) : IsDigit(body[i])
      mag    == IF syntax THEN DigitsVal(body, 0) ELSE 0
      val    == IF signed /\ s[1] = "-" THEN 0 - mag ELSE mag
  IN  IF syntax /\ val >= MinInt /\ val <= MaxInt
        THEN [val |-> val, err |-> FALSE]
        ELSE [val |-> 0, err |-> TRUE]

\* json.Marshal of a string without characters that need escaping.
MarshalString(id) == << "\"" >> \o id \o << "\"" >>

\* A copy that is made only when the lengths agree.
CopyToArrayStrict(secret) ==
  [i \in 1..tokenSize |-> IF Len(secret) = tokenSize THEN secret[i] ELSE 0]

\* copy(toHash[:], secret) into a zeroed [tokenSize]byte.
CopyToArray(secret) ==
  [i \in 1..tokenSize |-> IF i <= Len(secret) THEN secret[i] ELSE 0]

\* sha3pool.Sum256: a deterministic 32-byte digest.  The digest function is
\* taken to be collision free and without fixed points on the inputs used.
Sum256(b) == [i \in 1..tokenSize |-> (b[tokenSize + 1 - i] + 1) % 256]

(***************************************************************************)
(* Token and its JSON encoding                                             *)
(***************************************************************************)
\* time.Time as JSON text.
FormatTime(t) == Itoa(t)

\* json.Marshal(token): the fields in declaration order; token and type are
\* omitted when empty (omitempty).
MarshalToken(t) ==
  << << "id", t.ID >> >>
  \o (IF t.Token = << >> THEN << >> ELSE << << "token", t.Token >> >>)
  \o (IF t.Type = << >> THEN << >> ELSE << << "type", t.Type >> >>)
  \o << << "created_at", FormatTime(t.Created) >> >>

JsonField(v, name) ==
  IF \E i \in 1..Len(v) : v[i][1] = name
    THEN v[CHOOSE i \in 1..Len(v) : v[i][1] = name][2]
    ELSE << >>

\* json.Unmarshal(value, token) into a zero Token.
UnmarshalToken(v) ==
  [ID      |-> JsonField(v, "id"),
   Token   |-> JsonField(v, "token"),
   Type    |-> JsonField(v, "type"),
   Created |-> Atoi(JsonField(v, "created_at")).val]

(***************************************************************************)
(* The key-value store                                                     *)
(***************************************************************************)
\* The nil byte slice.
Nil == << >>

\* bytes.Compare(a, b) < 0
RECURSIVE BytesLess(_, _)
BytesLess(a, b) ==
  IF b = << >> THEN FALSE
  ELSE IF a = << >> THEN TRUE
  ELSE IF Code(Head(a)) # Code(Head(b)) THEN Code(Head(a)) < Code(Head(b))
  ELSE BytesLess(Tail(a), Tail(b))

DBGet(d, k) == IF k \in DOMAIN d THEN d[k] ELSE Nil

\* A set that keeps the value a key already has.
DBSetIfAbsent(d, k, v) ==
  [x \in (DOMAIN d) \cup {k} |-> IF x \in DOMAIN d THEN d[x] ELSE v]

DBSet(d, k, v) == [x \in (DOMAIN d) \cup {k} |-> IF x = k THEN v ELSE d[x]]

\* A delete that removes nothing.
DBDeleteNone(d, k) == d

DBDelete(d, k) == [x \in (DOMAIN d) \ {k} |-> d[x]]

\* The keys in iteration order (ascending byte order).
RECURSIVE SortKeys(_)
SortKeys(ks) ==
  IF ks = {} THEN << >>
  ELSE LET m == CHOOSE k \in ks : \A o \in ks \ {k} : BytesLess(k, o)
       IN  << m >> \o SortKeys(ks \ {m})

\* for iter.Next() { tokens = append(tokens, string(iter.Value())) }
DBIterate(d) == LET ks == SortKeys(DOMAIN d) IN [i \in 1..Len(ks) |-> d[ks[i]]]

(***************************************************************************)
(* Errors                                                                  *)
(***************************************************************************)
NoError == "nil"
ErrBadID == "invalid id"
ErrDuplicateID == "duplicate access token ID"
ErrNoMatchID == "nonexisting access token ID"
ErrInvalidAfter == "Invalid after"
ErrNoAccessToken == "No access token"
\* The error the random source reports when it fails.
ErrRandom == "random source error"
\* A run-time panic (slice bounds out of range): the call returns nothing.
Panic == "panic: slice bounds out of range"

(***************************************************************************)
(* The operations, as functions of the store and their inputs             *)
(***************************************************************************)
\* NewToken with the secret stored as it is, not its digest.
NewTokenPlain(id, typ, secret, created) ==
  [ID      |-> id,
   Token   |-> Sprintf(id, secret),
   Type    |-> typ,
   Created |-> created]

\* Create, lines 76-85: the record built from a freshly read secret.
NewToken(id, typ, secret, created) ==
  [ID      |-> id,
   Token   |-> Sprintf(id, Sum256(secret)),
   Type    |-> typ,
   Created |-> created]

\* Create, line 96: the issuance string.
Hexsec(id, secret) == Sprintf(id, secret)

\* Create, line 72: the secret is used only when the read filled the array
\* and reported no error.
RandOK(r) == r.err = NoError /\ r.n = tokenSize

\* CheckToken comparing only the "<id>:" prefix of the two strings.
CheckTokenPrefix(d, id, secret) ==
  LET inToken == Sprintf(id, Sum256(CopyToArray(secret)))
      value   == DBGet(d, MarshalString(id))
  IN  IF value = Nil THEN [ok |-> FALSE, err |-> ErrNoMatchID]
      ELSE IF SubSeq(UnmarshalToken(value).Token, 1, Len(id) + 1)
                = SubSeq(inToken, 1, Len(id) + 1)
             THEN [ok |-> TRUE, err |-> NoError]
             ELSE [ok |-> FALSE, err |-> NoError]

\* Check, lines 106-130, for an id that passed validation.
CheckToken(d, id, secret) ==
  LET inToken == Sprintf(id, Sum256(CopyToArray(secret)))
      value   == DBGet(d, MarshalString(id))
  IN  IF value = Nil THEN [ok |-> FALSE, err |-> ErrNoMatchID]
      ELSE IF UnmarshalToken(value).Token = inToken
             THEN [ok |-> TRUE, err |-> NoError]
             ELSE [ok |-> FALSE, err |-> NoError]

\* Check, lines 101-131.
Check(d, id, secret) ==
  IF ~validIDRegexp(id) THEN [ok |-> FALSE, err |-> ErrBadID]
  ELSE CheckToken(d, id, secret)

ListResult(items, next, lastPage, err) ==
  [items |-> items, next |-> next, lastPage |-> lastPage, err |-> err]

\* tokens[start:end]; the slice expression panics unless
\* 0 <= start <= end <= cap(tokens), and end never exceeds len(tokens) here.
SliceInRange(tokens, start, end) ==
  0 <= start /\ start <= end /\ end <= Len(tokens)

\* ListFrom with the range test made before the test for an empty store.
ListFromRangeFirst(tokens, zafter, limit, defaultLimit) ==
  LET total == Len(tokens)
      start == zafter
      end   == IF total > AddInt(zafter, limit) THEN AddInt(zafter, limit) ELSE total
      lastPage == total = end \/ total < defaultLimit
  IN  IF ~(total > zafter) THEN ListResult(<< >>, << >>, FALSE, ErrInvalidAfter)
      ELSE IF total = 0 THEN ListResult(<< >>, << >>, TRUE, ErrNoAccessToken)
      ELSE IF ~SliceInRange(tokens, start, end)
             THEN ListResult(<< >>, << >>, FALSE, Panic)
      ELSE ListResult(SubSeq(tokens, start + 1, end), Itoa(end), lastPage, NoError)

\* ListFrom with <= for < in the test against defaultLimit.
ListFromLE(tokens, zafter, limit, defaultLimit) ==
  LET total == Len(tokens)
      start == zafter
      end   == IF total > AddInt(zafter, limit) THEN AddInt(zafter, limit) ELSE total
      lastPage == total = end \/ total <= defaultLimit
  IN  IF total = 0 THEN ListResult(<< >>, << >>, TRUE, ErrNoAccessToken)
      ELSE IF ~(total > zafter) THEN ListResult(<< >>, << >>, FALSE, ErrInvalidAfter)
      ELSE IF ~SliceInRange(tokens, start, end)
             THEN ListResult(<< >>, << >>, FALSE, Panic)
      ELSE ListResult(SubSeq(tokens, start + 1, end), Itoa(end), lastPage, NoError)

\* List, lines 156-173, once after has been parsed into zafter.
\* A List whose cursor is where the page starts.
ListFromSameCursor(tokens, zafter, limit, defaultLimit) ==
  LET total == Len(tokens)
      start == zafter
      end   == IF total > AddInt(zafter, limit) THEN AddInt(zafter, limit) ELSE total
      lastPage == total = end \/ total < defaultLimit
  IN  IF total = 0 THEN ListResult(<< >>, << >>, TRUE, ErrNoAccessToken)
      ELSE IF ~(total > zafter) THEN ListResult(<< >>, << >>, FALSE, ErrInvalidAfter)
      ELSE IF ~SliceInRange(tokens, start, end)
             THEN ListResult(<< >>, << >>, FALSE, Panic)
      ELSE ListResult(SubSeq(tokens, start + 1, end), Itoa(start), lastPage, NoError)

ListFrom(tokens, zafter, limit, defaultLimit) ==
  LET total == Len(tokens)
      start == zafter
      end   == IF total > AddInt(zafter, limit) THEN AddInt(zafter, limit) ELSE total
      lastPage == total = end \/ total < defaultLimit
  IN  IF total = 0 THEN ListResult(<< >>, << >>, TRUE, ErrNoAccessToken)
      ELSE IF ~(total > zafter) THEN ListResult(<< >>, << >>, FALSE, ErrInvalidAfter)
      ELSE IF ~SliceInRange(tokens, start, end)
             THEN ListResult(<< >>, << >>, FALSE, Panic)
      ELSE ListResult(SubSeq(tokens, start + 1, end), Itoa(end), lastPage, NoError)

\* List, lines 134-174.
List(d, after, limit, defaultLimit) ==
  IF after # << >> /\ Atoi(after).err
    THEN ListResult(<< >>, << >>, FALSE, ErrInvalidAfter)
    ELSE ListFrom(DBIterate(d), IF after = << >> THEN 0 ELSE Atoi(after).val,
                  limit, defaultLimit)

(***************************************************************************)
(* Inputs                                                                  *)
(***************************************************************************)
ValidIDs == { << "a" >>, << "A", "-", "1" >> }

InvalidIDs == { << >>, << "b", "a", "d", " ", "i", "d", "!" >> }

IDs == ValidIDs \cup InvalidIDs

Types == { << "c", "l", "i", "e", "n", "t" >> }

\* A 32-byte array whose first byte is x, whose last byte is y, zero between.
Bytes32(x, y) ==
  [i \in 1..tokenSize |-> IF i = 1 THEN x ELSE IF i = tokenSize THEN y ELSE 0]

\* The secrets the random source may produce.
RandPool == { Bytes32(0, 0), Bytes32(171, 0) }

\* The outcomes of rand.Read(secret[:]): n bytes read and an error.
RandOutcomes ==
  { [n |-> tokenSize, err |-> NoError, bytes |-> s] : s \in RandPool }
  \cup { [n |-> tokenSize - 1, err |-> NoError, bytes |-> Bytes32(171, 0)],
         [n |-> 0, err |-> ErrRandom, bytes |-> Bytes32(0, 0)] }

\* The secrets presented to Check: the pool, a 32-byte secret that is never
\* issued, a one-byte secret and a 33-byte secret.
CheckSecrets ==
  RandPool \cup { Bytes32(171, 1), << 171 >>, Bytes32(171, 0) \o << 7 >> }

Afters ==
  { << >>, << "0" >>, << "1" >>, << "2" >>, << "-", "1" >>, << "x" >> }

Limits == (0 - 1)..MaxLimit \cup { MaxInt }

DefaultLimits == 1..MaxDefaultLimit

Times == 0..MaxTime

Procs == { "p1", "p2" }

\* The ids of the store that a paging client reads: "0" sorts before the
\* keys of ValidIDs.
ScanIDs == ValidIDs \cup { << "0" >> }

\* While a client pages, the random source and the clock give one outcome.
ScanRand == { [n |-> tokenSize, err |-> NoError, bytes |-> Bytes32(0, 0)] }

\* The page sizes a paging client asks for.
ScanLimits == 1..MaxLimit

\* defaultLimit as the handlers pass it, besides the small values.
ScanDefaultLimits == DefaultLimits \cup { defGenericPageSize }

(***************************************************************************)
(* State                                                                   *)
(***************************************************************************)
VARIABLES
  db,       \* cs.DB: key |-> value
  pc,       \* per caller of Create: "idle", or "write" after the lookup
  arg,      \* per caller of Create: id, typ and v != nil of the call in progress
  last,     \* the call that completed last: its inputs and what it returned
  issued,   \* per id: the secret of the issuance string returned for the
            \* record now stored (Nil when none)
  revoked,  \* the id and secret of the record a Delete removed last
  scan      \* a client paging through List: its cursor and what it received

vars == << db, pc, arg, last, issued, revoked, scan >>

\* A completed call; the fields a call does not have keep these values.
\* For Create, found tells whether the lookup returned a value, and n and
\* rerr are what rand.Read returned.
NoCall ==
  [op |-> "none", id |-> << >>, typ |-> << >>, secret |-> << >>,
   after |-> << >>, limit |-> 0, defaultLimit |-> 0,
   found |-> FALSE, n |-> 0, rerr |-> NoError,
   ret |-> << >>, ok |-> FALSE, items |-> << >>, next |-> << >>,
   lastPage |-> FALSE, err |-> NoError]

NoArg == [id |-> << >>, typ |-> << >>, found |-> FALSE]

NoRecord == [id |-> << >>, secret |-> << >>]

\* A paging client that has not called List yet.  got is what the pages
\* brought so far, kept the records stored since the first page without
\* interruption, changed whether the store changed since the first page.
NoScan ==
  [pc |-> "idle", after |-> << >>, limit |-> 0, defaultLimit |-> 0,
   got |-> << >>, kept |-> {}, changed |-> FALSE]

Init ==
  /\ db = << >>
  /\ pc = [p \in Procs |-> "idle"]
  /\ arg = [p \in Procs |-> NoArg]
  /\ last = NoCall
  /\ issued = [i \in IDs \cup ScanIDs |-> Nil]
  /\ revoked = NoRecord
  /\ scan = NoScan

(***************************************************************************)
(* Actions                                                                 *)
(***************************************************************************)
\* CreateLookup without the DuplicateID return.
CreateLookupNoCheck(p, id, typ) ==
  /\ pc[p] = "idle"
  /\ LET v == DBGet(db, MarshalString(id))
     IN  IF ~validIDRegexp(id)
           THEN /\ last' = [NoCall EXCEPT !.op = "Create", !.id = id, !.typ = typ,
                                          !.err = ErrBadID]
                /\ UNCHANGED << pc, arg >>
         ELSE /\ pc' = [pc EXCEPT ![p] = "write"]
              /\ arg' = [arg EXCEPT ![p] = [id |-> id, typ |-> typ, found |-> v # Nil]]
              /\ UNCHANGED last
  /\ UNCHANGED << db, issued, revoked >>

\* Create, lines 63-69: validation and the existence lookup.
CreateLookup(p, id, typ) ==
  /\ pc[p] = "idle"
  /\ LET v == DBGet(db, MarshalString(id))
     IN  IF ~validIDRegexp(id)
           THEN /\ last' = [NoCall EXCEPT !.op = "Create", !.id = id, !.typ = typ,
                                          !.err = ErrBadID]
                /\ UNCHANGED << pc, arg >>
         ELSE IF v # Nil
           THEN /\ last' = [NoCall EXCEPT !.op = "Create", !.id = id, !.typ = typ,
                                          !.found = TRUE, !.err = ErrDuplicateID]
                /\ UNCHANGED << pc, arg >>
         ELSE /\ pc' = [pc EXCEPT ![p] = "write"]
              /\ arg' = [arg EXCEPT ![p] = [id |-> id, typ |-> typ, found |-> v # Nil]]
              /\ UNCHANGED last
  /\ UNCHANGED << db, issued, revoked >>

\* Create, lines 70-97: the random read, the write and the return.
CreateWrite(p, r, now) ==
  /\ pc[p] = "write"
  /\ LET id == arg[p].id
         typ == arg[p].typ
         call == [NoCall EXCEPT !.op = "Create", !.id = id, !.typ = typ,
                                !.found = arg[p].found, !.n = r.n, !.rerr = r.err]
     IN  IF ~RandOK(r)
           THEN /\ last' = [call EXCEPT !.err = r.err]
                /\ UNCHANGED << db, issued >>
           ELSE /\ db' = DBSet(db, MarshalString(id),
                               MarshalToken(NewToken(id, typ, r.bytes, now)))
                /\ last' = [call EXCEPT !.ret = Hexsec(id, r.bytes)]
                /\ issued' = [issued EXCEPT ![id] = r.bytes]
  /\ pc' = [pc EXCEPT ![p] = "idle"]
  /\ arg' = [arg EXCEPT ![p] = NoArg]

\* A Check that uses up the record it accepts.
DoCheckConsume(id, secret) ==
  /\ LET r == Check(db, id, secret)
     IN  /\ last' = [NoCall EXCEPT !.op = "Check", !.id = id, !.secret = secret,
                                   !.ok = r.ok, !.err = r.err]
         /\ db' = IF r.ok THEN DBDelete(db, MarshalString(id)) ELSE db
  /\ UNCHANGED << pc, arg, issued, revoked >>

DoCheck(id, secret) ==
  /\ LET r == Check(db, id, secret)
     IN  last' = [NoCall EXCEPT !.op = "Check", !.id = id, !.secret = secret,
                                !.ok = r.ok, !.err = r.err]
  /\ UNCHANGED << db, pc, arg, issued, revoked >>

DoList(after, limit, defaultLimit) ==
  /\ LET r == List(db, after, limit, defaultLimit)
     IN  last' = [NoCall EXCEPT !.op = "List", !.after = after, !.limit = limit,
                                !.defaultLimit = defaultLimit, !.items = r.items,
                                !.next = r.next, !.lastPage = r.lastPage,
                                !.err = r.err]
  /\ UNCHANGED << db, pc, arg, issued, revoked >>

\* Delete that reports an id without a record as an error.
DeleteStrict(id) ==
  /\ IF ~validIDRegexp(id)
       THEN /\ last' = [NoCall EXCEPT !.op = "Delete", !.id = id, !.err = ErrBadID]
            /\ UNCHANGED << db, issued >>
       ELSE IF DBGet(db, MarshalString(id)) = Nil
       THEN /\ last' = [NoCall EXCEPT !.op = "Delete", !.id = id, !.err = ErrNoMatchID]
            /\ UNCHANGED << db, issued >>
       ELSE /\ db' = DBDelete(db, MarshalString(id))
            /\ last' = [NoCall EXCEPT !.op = "Delete", !.id = id]
            /\ issued' = [issued EXCEPT ![id] = Nil]
  /\ UNCHANGED << pc, arg >>

\* Delete, lines 177-188.
Delete(id) ==
  /\ IF ~validIDRegexp(id)
       THEN /\ last' = [NoCall EXCEPT !.op = "Delete", !.id = id, !.err = ErrBadID]
            /\ UNCHANGED << db, issued >>
       ELSE /\ db' = DBDelete(db, MarshalString(id))
            /\ last' = [NoCall EXCEPT !.op = "Delete", !.id = id]
            /\ issued' = [issued EXCEPT ![id] = Nil]
  /\ UNCHANGED << pc, arg >>

\* History: remember the record that Delete(id) removes.
Revoke(id) ==
  revoked' = IF validIDRegexp(id) /\ issued[id] # Nil
               THEN [id |-> id, secret |-> issued[id]]
               ELSE revoked

\* History: remember the record that the write of caller p replaces.
Overwrite(p, r) ==
  revoked' = IF RandOK(r) /\ issued[arg[p].id] # Nil
               THEN [id |-> arg[p].id, secret |-> issued[arg[p].id]]
               ELSE revoked

\* The client takes the page that List has just returned: it keeps the
\* items, and goes on from nextCursor unless the page is the last one.
TakePage(sc, page) ==
  IF page.err # NoError
    THEN [sc EXCEPT !.pc = "failed"]
    ELSE [sc EXCEPT !.got = @ \o page.items,
                    !.after = page.next,
                    !.pc = IF page.lastPage THEN "done" ELSE "running"]

\* The first page of a scan: List("", limit, defaultLimit).
ScanStart(limit, defaultLimit) ==
  /\ scan.pc # "running"
  /\ DoList(<< >>, limit, defaultLimit)
  /\ scan' = TakePage([NoScan EXCEPT !.limit = limit,
                                     !.defaultLimit = defaultLimit,
                                     !.kept = { db[k] : k \in DOMAIN db }],
                      last')

\* A further page: List(nextCursor, limit, defaultLimit).
ScanPage ==
  /\ scan.pc = "running"
  /\ DoList(scan.after, scan.limit, scan.defaultLimit)
  /\ scan' = TakePage(scan, last')

\* History: what a Create or a Delete does to the store while the client
\* is between two pages or has finished.
Touch ==
  scan' = IF scan.pc = "idle" THEN scan
          ELSE [scan EXCEPT !.changed = @ \/ db' # db,
                            !.kept = @ \cap { db'[k] : k \in DOMAIN db' }]

\* Check and List leave every variable but last unchanged, so the stores
\* reached are the same whichever of the two a specification includes.

\* One caller of Create at a time, with Check and Delete.
Next ==
  \/ \E id \in IDs, typ \in Types : CreateLookup("p1", id, typ) /\ UNCHANGED scan
  \/ \E r \in RandOutcomes, now \in Times :
       CreateWrite("p1", r, now) /\ UNCHANGED << revoked, scan >>
  \/ \E id \in IDs, secret \in CheckSecrets :
       DoCheck(id, secret) /\ UNCHANGED scan
  \/ \E id \in IDs : Delete(id) /\ Revoke(id) /\ UNCHANGED scan

Spec == Init /\ [][Next]_vars

\* One caller of Create at a time, with Delete and List.
ListNext ==
  \/ \E id \in IDs, typ \in Types : CreateLookup("p1", id, typ) /\ UNCHANGED scan
  \/ \E r \in RandOutcomes, now \in Times :
       CreateWrite("p1", r, now) /\ UNCHANGED << revoked, scan >>
  \/ \E id \in IDs : Delete(id) /\ UNCHANGED << revoked, scan >>
  \/ \E after \in Afters, limit \in Limits, defaultLimit \in DefaultLimits :
       DoList(after, limit, defaultLimit) /\ UNCHANGED scan

ListSpec == Init /\ [][ListNext]_vars

\* Two callers of Create whose lookups and writes interleave, with Check on
\* the secrets the random source issues.
RaceNext ==
  \/ \E p \in Procs, id \in ValidIDs, typ \in Types :
       CreateLookup(p, id, typ) /\ UNCHANGED scan
  \/ \E p \in Procs, r \in RandOutcomes, now \in Times :
       CreateWrite(p, r, now) /\ Overwrite(p, r) /\ UNCHANGED scan
  \/ \E id \in ValidIDs, secret \in RandPool :
       DoCheck(id, secret) /\ UNCHANGED scan

RaceSpec == Init /\ [][RaceNext]_vars

\* One caller of Create at a time, with Delete and the two reading calls.
ReadNext ==
  \/ \E id \in IDs, typ \in Types :
       CreateLookup("p1", id, typ) /\ UNCHANGED scan
  \/ \E r \in RandOutcomes, now \in Times :
       CreateWrite("p1", r, now) /\ UNCHANGED << revoked, scan >>
  \/ \E id \in IDs : Delete(id) /\ UNCHANGED << revoked, scan >>
  \/ \E id \in IDs, secret \in RandPool :
       DoCheck(id, secret) /\ UNCHANGED scan
  \/ \E after \in Afters, limit \in Limits, defaultLimit \in DefaultLimits :
       DoList(after, limit, defaultLimit) /\ UNCHANGED scan

ReadSpec == Init /\ [][ReadNext]_vars

\* A client paging through List while Create and Delete go on.
ScanNext ==
  \/ \E id \in ScanIDs, typ \in Types :
       CreateLookup("p1", id, typ) /\ UNCHANGED scan
  \/ \E r \in ScanRand :
       CreateWrite("p1", r, 0) /\ Touch /\ UNCHANGED revoked
  \/ \E id \in ScanIDs : Delete(id) /\ Touch /\ UNCHANGED revoked
  \/ \E limit \in ScanLimits, defaultLimit \in ScanDefaultLimits :
       ScanStart(limit, defaultLimit)
  \/ ScanPage

ScanSpec == Init /\ [][ScanNext]_vars

(***************************************************************************)
(* Vocabulary of the properties                                            *)
(***************************************************************************)
\* The characters of the identifier pattern ^[A-Za-z0-9_-]+$ .
PatternChars ==
  { "A", "B", "C", "D", "E", "F", "G", "H", "I", "J", "K", "L", "M",
    "N", "O", "P", "Q", "R", "S", "T", "U", "V", "W", "X", "Y", "Z",
    "a", "b", "c", "d", "e", "f", "g", "h", "i", "j", "k", "l", "m",
    "n", "o", "p", "q", "r", "s", "t", "u", "v", "w", "x", "y", "z",
    "0", "1", "2", "3", "4", "5", "6", "7", "8", "9", "_", "-" }

MatchesPattern(id) ==
  Len(id) >= 1 /\ \A i \in 1..Len(id) : id[i] \in PatternChars

\* The key under which the record of id is stored: id as a JSON string.
RecordKey(id) == << "\"" >> \o id \o << "\"" >>

\* The store holds a record for id.
HasRecordIn(d, id) == RecordKey(id) \in DOMAIN d

HasRecord(id) == HasRecordIn(db, id)

\* Number of stored records.
Total == Cardinality(DOMAIN db)

HexChars == {HexDigits[i] : i \in 1..16}

HexValue(c) == (CHOOSE i \in 1..16 : HexDigits[i] = c) - 1

\* Position of the first colon of s, 0 when it has none.
ColonAt(s) ==
  IF \E i \in 1..Len(s) : s[i] = ":"
    THEN CHOOSE i \in 1..Len(s) : s[i] = ":" /\ \A j \in 1..(i - 1) : s[j] # ":"
    ELSE 0

\* The secret a caller extracts from an issuance string "<id>:<hex>".
SecretOf(s) ==
  LET h == SubSeq(s, ColonAt(s) + 1, Len(s))
  IN  [i \in 1..(Len(h) \div 2) |-> 16 * HexValue(h[2 * i - 1]) + HexValue(h[2 * i])]

\* s is "<id>:" followed by the hex encoding of tokenSize bytes.
IsIssuance(s, id) ==
  /\ Len(s) = Len(id) + 1 + 2 * tokenSize
  /\ SubSeq(s, 1, Len(id)) = id
  /\ s[Len(id) + 1] = ":"
  /\ \A i \in (Len(id) + 2)..Len(s) : s[i] \in HexChars

\* The last call is a Create whose lookup found no record for a valid id.
CreatedAbsent(c) ==
  c.op = "Create" /\ MatchesPattern(c.id) /\ ~c.found

\* The random source filled the secret and reported no error.
RandFilled(c) == c.n = tokenSize /\ c.rerr = NoError

CreateSucceeded(c) == c.err = NoError /\ IsIssuance(c.ret, c.id)

\* What Create returns on an absent id: the issuance string when the random
\* source filled the secret, else the random source's error and no string.
CreateOutcome(c) ==
  IF RandFilled(c) THEN CreateSucceeded(c)
  ELSE c.err = c.rerr /\ c.ret = Nil /\ (c.n # tokenSize \/ c.rerr # NoError)

(***************************************************************************)
(* C1                                                                      *)
(***************************************************************************)
\* C1 as stated: for every id matching ^[A-Za-z0-9_-]+$ that has no record,
\* Create(id, t) succeeds and returns "<id>:<hex secret>".
C1_Original == CreatedAbsent(last) => CreateSucceeded(last)

\* C1, amended: for every valid id that has no record, Create(id, t) succeeds
\* and returns "<id>:<hex secret>" provided the random source fills the 32
\* bytes without error (otherwise it returns the source's error and no
\* string); and a Check(id, secret) with the secret extracted from the
\* returned string, issued before any other call completes, returns
\* (true, no error).
C1_CreateThenCheck ==
  /\ [](CreatedAbsent(last) => CreateOutcome(last))
  /\ [][(/\ last.op = "Create" /\ last.err = NoError /\ last.ret # Nil
         /\ last'.op = "Check" /\ last'.id = last.id
         /\ last'.secret = SecretOf(last.ret))
        => (last'.ok /\ last'.err = NoError)]_vars

C1_Witness ==
  /\ last.op = "Check" /\ last.ok /\ last.err = NoError
  /\ MatchesPattern(last.id) /\ HasRecord(last.id)
  /\ last.secret = issued[last.id]

(***************************************************************************)
(* C2                                                                      *)
(***************************************************************************)
C2_Case ==
  /\ last.op = "Check" /\ MatchesPattern(last.id) /\ HasRecord(last.id)
  /\ Len(last.secret) = tokenSize /\ last.secret # issued[last.id]

\* C2: when a record exists for id, Check(id, s) for every 32-byte s other
\* than the issued secret returns (false, no error).
C2_WrongSecret == C2_Case => (~last.ok /\ last.err = NoError)

C2_Witness == C2_Case /\ ~last.ok /\ last.err = NoError

(***************************************************************************)
(* C3                                                                      *)
(***************************************************************************)
\* C3: when a record for id exists and no other Create is in flight,
\* Create(id, t) fails with DuplicateID, returns no secret and leaves the
\* store unchanged, and a Check(id, originalSecret) that follows returns
\* (true, no error).
C3_Duplicate ==
  /\ [](last.op = "Create" /\ last.found
          => last.err = ErrDuplicateID /\ last.ret = Nil /\ HasRecord(last.id))
  /\ [][last'.op = "Create" /\ last'.found => db' = db]_vars
  /\ [][(/\ last.op = "Create" /\ last.found
         /\ last'.op = "Check" /\ last'.id = last.id
         /\ last'.secret = issued[last.id])
        => (last'.ok /\ last'.err = NoError)]_vars

C3_Witness ==
  /\ last.op = "Create" /\ last.found /\ last.err = ErrDuplicateID
  /\ HasRecord(last.id) /\ issued[last.id] # Nil

(***************************************************************************)
(* C4                                                                      *)
(***************************************************************************)
KeyedCall(c) == c.op \in {"Create", "Check", "Delete"}

\* C4: for every id that does not match the identifier pattern, Create,
\* Check and Delete fail with InvalidID, return nothing, and leave the store
\* unchanged.
C4_InvalidID ==
  /\ [](KeyedCall(last) /\ ~MatchesPattern(last.id)
          => /\ last.err = ErrBadID
             /\ last.ret = Nil /\ ~last.ok /\ ~last.found /\ last.n = 0)
  /\ [][KeyedCall(last') /\ ~MatchesPattern(last'.id) => db' = db]_vars

C4_Witness ==
  /\ last.op = "Delete" /\ last.err = ErrBadID
  /\ last.id = << "b", "a", "d", " ", "i", "d", "!" >>
  /\ Total = 2

(***************************************************************************)
(* C5                                                                      *)
(***************************************************************************)
DeleteThenCreate ==
  /\ last.op = "Delete" /\ last.err = NoError
  /\ last'.op = "Create" /\ last'.id = last.id

C6_Rotation ==
  /\ last.op = "Check" /\ MatchesPattern(last.id) /\ ~HasRecord(last.id)
       => (last.err = ErrNoMatchID /\ ~last.ok)
  /\ last.op = "Check" /\ MatchesPattern(last.id) /\ HasRecord(last.id)
       /\ Len(last.secret) = tokenSize
       => (last.err = NoError /\ (last.ok <=> last.secret = issued[last.id]))

C6_Witness ==
  /\ last.op = "Check" /\ last.id = revoked.id /\ last.secret = revoked.secret
  /\ HasRecord(last.id) /\ issued[last.id] # revoked.secret
  /\ ~last.ok /\ last.err = NoError

(***************************************************************************)
(* Vocabulary of the properties of List                                    *)
(***************************************************************************)
AllDigits(s) == Len(s) >= 1 /\ \A i \in 1..Len(s) : s[i] \in DigitChars

\* after denotes a non-negative integer: the empty string (offset 0) or a
\* string of decimal digits.
DenotesOffset(s) == s = << >> \/ AllDigits(s)

\* after is text that parses as an integer, with or without sign.
DenotesInteger(s) ==
  \/ AllDigits(s)
  \/ Len(s) >= 2 /\ s[1] \in {"+", "-"} /\ AllDigits(Tail(s))

RECURSIVE DecimalValue(_)
DecimalValue(s) ==
  IF s = << >> THEN 0
  ELSE 10 * DecimalValue(SubSeq(s, 1, Len(s) - 1)) + HexValue(s[Len(s)])

\* The offset that after denotes.
OffsetOf(s) == DecimalValue(s)

\* The decimal encoding of a number below 100.
Decimal(n) ==
  IF n < 10 THEN << HexDigits[n + 1] >>
  ELSE << HexDigits[(n \div 10) + 1], HexDigits[(n % 10) + 1] >>

Min(a, b) == IF a <= b THEN a ELSE b

\* Where the page of a List call ends.
EndOf(c) == Min(Total, OffsetOf(c.after) + c.limit)

\* The records in the store's iteration order.
Order == DBIterate(db)

(***************************************************************************)
(* C7                                                                      *)
(***************************************************************************)
\* C7, for a store that holds at least one record: List fails with
\* InvalidAfter, returning no items, whenever after does not denote a
\* non-negative integer (a negative number such as "-1" included) or denotes
\* an offset >= the number of stored records.
C7_InvalidAfter ==
  /\ last.op = "List" /\ Total >= 1
  /\ ~DenotesOffset(last.after) \/ OffsetOf(last.after) >= Total
  => (last.err = ErrInvalidAfter /\ last.items = << >>)

(***************************************************************************)
(* C8                                                                      *)
(***************************************************************************)
\* C8 as stated: whenever the store holds zero records, List fails with the
\* "No access token" error for every after, limit and defaultLimit.
C8_Original == last.op = "List" /\ Total = 0 => last.err = ErrNoAccessToken

\* C8, amended: whenever the store holds zero records, List fails with the
\* "No access token" error for every limit and defaultLimit and every after
\* that is empty or parses as an integer; an after that does not parse fails
\* with InvalidAfter before the store is read.
C8_EmptyStore ==
  last.op = "List" /\ Total = 0
  => /\ last.items = << >>
     /\ IF last.after = << >> \/ DenotesInteger(last.after)
          THEN last.err = ErrNoAccessToken
          ELSE last.err = ErrInvalidAfter

C8_Witness ==
  /\ last.op = "List" /\ Total = 0 /\ last.after = << "2" >>
  /\ last.err = ErrNoAccessToken

(***************************************************************************)
(* C9                                                                      *)
(***************************************************************************)
C9_Case ==
  /\ last.op = "List" /\ Total >= 1 /\ DenotesOffset(last.after)
  /\ OffsetOf(last.after) < Total /\ last.limit >= 0

\* C9: for a store with total >= 1 records, every offset with
\* 0 <= offset < total and every limit >= 0, List returns exactly the records
\* at positions [offset, end) of the iteration order, end = min(total,
\* offset + limit), and nextCursor is the decimal encoding of end.
C9_Slice ==
  C9_Case
  => /\ last.err = NoError
     /\ last.items = SubSeq(Order, OffsetOf(last.after) + 1, EndOf(last))
     /\ last.next = Decimal(EndOf(last))

(***************************************************************************)
(* C10                                                                     *)
(***************************************************************************)
\* C10: on every successful List call isLastPage is true exactly when
\* end = total or total < defaultLimit; List("", N, d) on N records reports
\* isLastPage = true, and List("", N-1, N) on N records returns N-1 items with
\* isLastPage = false and cursor "N-1".
C10_LastPage ==
  last.op = "List" /\ last.err = NoError
  => /\ last.lastPage <=> (EndOf(last) = Total \/ Total < last.defaultLimit)
     /\ last.after = << >> /\ last.limit = Total => last.lastPage
     /\ last.after = << >> /\ last.limit = Total - 1 /\ last.defaultLimit = Total
          => /\ Len(last.items) = Total - 1
             /\ ~last.lastPage
             /\ last.next = Decimal(Total - 1)

C10_Witness ==
  /\ last.op = "List" /\ last.err = NoError /\ Total = 2
  /\ last.after = << >> /\ last.limit = 1 /\ last.defaultLimit = 2
  /\ Len(last.items) = 1 /\ ~last.lastPage /\ last.next = << "1" >>

StoredDigest(k) == JsonField(db[k], "token")

StoredID(k) == JsonField(db[k], "id")

\* C12: in every reachable state each stored record is kept under the key of
\* its own id, its digest is "<id>:<hex(hash(secret))>" for the secret issued
\* for it, and it is not "<id>:<hex(s)>" for any secret s the random source
\* issues; the plaintext is what Create returned.
C12_NoPlaintext ==
  /\ \A k \in DOMAIN db :
       LET id == StoredID(k)
       IN  /\ k = RecordKey(id)
           /\ issued[id] # Nil
           /\ StoredDigest(k) = id \o << ":" >> \o Hex(Sum256(issued[id]))
           /\ \A x \in RandPool : StoredDigest(k) # id \o << ":" >> \o Hex(x)
  /\ last.op = "Create" /\ last.err = NoError /\ last.ret # Nil
       => /\ last.ret = last.id \o << ":" >> \o Hex(issued[last.id])
          /\ StoredDigest(RecordKey(last.id)) # last.ret

C12_Witness ==
  /\ last.op = "Create" /\ last.err = NoError /\ last.ret # Nil
  /\ Total = 2
  /\ SecretOf(last.ret) = issued[last.id]
  /\ StoredDigest(RecordKey(last.id)) # last.ret

(***************************************************************************)
(* C16                                                                     *)
(***************************************************************************)
\* s framed to tokenSize bytes: cut after the first tokenSize bytes, or
\* followed by zero bytes.
Framed(s) ==
  [i \in 1..tokenSize |-> IF i <= Len(s) THEN s[i] ELSE 0]

\* C16: Check frames the secret to 32 bytes before hashing, so for a valid
\* id with a record Check(id, s) returns no error for s of any length, and
\* true exactly when the framing of s is the issued secret.
C16_Framing ==
  last.op = "Check" /\ MatchesPattern(last.id) /\ HasRecord(last.id)
  => /\ last.err = NoError
     /\ last.ok <=> Framed(last.secret) = issued[last.id]

C16_Witness ==
  /\ last.op = "Check" /\ HasRecord(last.id) /\ last.ok
  /\ Len(last.secret) > tokenSize
  /\ last.secret # issued[last.id]

(***************************************************************************)
(* C18                                                                     *)
(***************************************************************************)
\* C18: List never takes an out-of-range slice: whatever after and limit
\* are, it returns an error or slices within 0 <= start <= end <= total.
C18_NoPanic == last.op = "List" => last.err # Panic

(***************************************************************************)
(* C13                                                                     *)
(***************************************************************************)
\* The stored records whose id field is id.
RecordsOf(id) == { k \in DOMAIN db : StoredID(k) = id }

\* Both callers have passed the duplicate check for the same id.
BothPassed(id) ==
  \A p \in Procs : pc[p] = "write" /\ arg[p].id = id /\ ~arg[p].found

\* C13: Create's check and write are not atomic.  A caller that passed the
\* check still writes after another caller's write: its Create succeeds, the
\* store then holds exactly one record for the id with the digest of this
\* later write, and Check answers true for the later secret only.
C13_LastWriterWins ==
  /\ [][\A p \in Procs :
          pc[p] = "write" /\ pc'[p] = "idle" /\ RandFilled(last')
          => /\ last'.op = "Create" /\ last'.id = arg[p].id
             /\ last'.err = NoError /\ IsIssuance(last'.ret, last'.id)
             /\ Cardinality({ k \in DOMAIN db' :
                              JsonField(db'[k], "id") = last'.id }) = 1
             /\ JsonField(db'[RecordKey(last'.id)], "token")
                  = last'.id \o << ":" >> \o Hex(Sum256(SecretOf(last'.ret)))
             /\ HasRecord(last'.id) => revoked'.id = last'.id
                                       /\ revoked'.secret = issued[last'.id]]_vars
  /\ [](last.op = "Check" /\ HasRecord(last.id)
         => /\ last.ok <=> last.secret = issued[last.id]
            /\ StoredDigest(RecordKey(last.id))
                 = last.id \o << ":" >> \o Hex(Sum256(issued[last.id])))

\* Both callers passed the check, both writes succeeded with different
\* secrets, and Check has just refused the earlier writer's secret.
C13_Witness ==
  /\ last.op = "Check" /\ ~last.ok /\ last.err = NoError
  /\ revoked.id = last.id /\ revoked.secret = last.secret
  /\ issued[last.id] # Nil /\ issued[last.id] # revoked.secret
  /\ Cardinality(RecordsOf(last.id)) = 1

(***************************************************************************)
(* C14                                                                     *)
(***************************************************************************)
\* Some record occurs twice in the sequence q.
Repeats(q) == \E i, j \in 1..Len(q) : i < j /\ q[i] = q[j]

\* q is an initial part of the sequence r.
IsPrefix(q, r) == Len(q) <= Len(r) /\ \A i \in 1..Len(q) : q[i] = r[i]

\* A record stored during the whole scan that the pages did not bring.
Omitted(r) == r \in scan.kept /\ \A i \in 1..Len(scan.got) : scan.got[i] # r

\* The scan is over: a last page came, or a call failed.
ScanOver == scan.pc \in { "done", "failed" }

\* C14: the cursor is an offset into the order at call time.  While the
\* store does not change, the pages are an initial part of that order, no
\* record comes twice and no call fails on a store that holds records; a
\* Create or Delete between two pages shifts the offsets, and then a scan
\* can bring a record twice and miss a record that was stored throughout.
C14_OffsetCursor ==
  scan.pc # "idle" /\ ~scan.changed
  => /\ IsPrefix(scan.got, Order)
     /\ ~Repeats(scan.got)
     /\ scan.pc = "failed" => Total = 0

\* After a Create and a Delete between pages the scan is over, has brought
\* one record twice and missed a record that was stored throughout.
C14_Witness ==
  /\ ScanOver /\ scan.changed
  /\ Repeats(scan.got)
  /\ \E r \in scan.kept : Omitted(r)

(***************************************************************************)
(* C17                                                                     *)
(***************************************************************************)
\* C17: while the store does not change, a client that pages with
\* limit >= 1 from the empty cursor until the first last page has received
\* every stored record once, in iteration order.
C17_FullScan ==
  scan.pc = "done" /\ ~scan.changed /\ scan.limit >= 1 /\ Total >= 1
  => scan.got = Order

(***************************************************************************)
(* C15                                                                     *)
(***************************************************************************)
\* C15: a step that completes a Check or a List, successful or failing,
\* leaves the store as it was: the same keys with the same values.
C15_ReadOnly ==
  [][last'.op \in { "Check", "List" }
       => /\ DOMAIN db' = DOMAIN db
          /\ \A k \in DOMAIN db : db'[k] = db[k]]_vars

\* A Check has just accepted a secret and both records are in the store.
C15_Witness ==
  /\ Total = 2
  /\ last.op = "Check" /\ last.ok /\ HasRecord(last.id)

====
